---- MODULE Spec2Model ----
(***************************************************************************)
(* Byte-section decomposition of a serialized Solana transaction           *)
(* (transaction_byte_sections.rs) and the widgets that render the section  *)
(* list (transaction_byte_block.rs, byte_block.rs, byte_section_legend.rs).*)
(***************************************************************************)
EXTENDS Integers, Sequences, FiniteSets, TLC

VARIABLES
    tx,          \* the VersionedTransaction handed to the extractor
    bytes,       \* bincode::serialize(&transaction)
    sections,    \* the caller-owned Vec<TransactionByteSection>
    offset,      \* the cursor threaded through the add_* functions
    taken,       \* history: the [start, len] of every slice get_bytes returned
    fault,       \* "none", or the kind of panic that unwound the call
    pc,          \* position inside get_transaction_byte_sections
    COLOR_SET,   \* the thread_local colour set, built on first use
    calls,       \* history: has the list already been filled by an earlier call
    area_width,  \* the inner width handed to the last render_inner
    grid,        \* what the byte-grid widget rendered
    legend       \* what the legend widget rendered

vars == <<tx, bytes, sections, offset, taken, fault, pc, COLOR_SET, calls,
          area_width, grid, legend>>

---------------------------------------------------------------------------
(* Bounds of the explored inputs.                                          *)

MaxSigs == 1
MaxKeys == 2
MaxInstrs == 2
MaxLookups == 1
MaxWidgetSections == 3
MaxWidth == 9

---------------------------------------------------------------------------
(* Sizes fixed by the wire format.                                         *)

SignatureSize == 64
PubkeySize == 32
HashSize == 32
NUM_NON_ACCOUNT_COLORS == 17

---------------------------------------------------------------------------
(* Sequence helpers.                                                       *)

Fill(n, v) == [k \in 1..n |-> v]

RECURSIVE Flatten(_)
Flatten(ss) == IF ss = <<>> THEN <<>> ELSE Head(ss) \o Flatten(Tail(ss))

RECURSIVE SumLens(_)
SumLens(ss) == IF ss = <<>> THEN 0 ELSE Len(Head(ss)) + SumLens(Tail(ss))

SectionBytes(secs) == [i \in 1..Len(secs) |-> secs[i].bytes]

None == <<>>
Some(x) == <<x>>

---------------------------------------------------------------------------
(* Colours.                                                                *)

Rgb(r, g, b) == <<"Rgb", r, g, b>>
Yellow == <<"Yellow">>
White == <<"White">>

COLORS == <<
    Rgb(255, 228, 196), Rgb(47, 79, 79),    Rgb(85, 107, 47),   Rgb(107, 142, 35),
    Rgb(160, 82, 45),   Rgb(46, 139, 87),   Rgb(128, 0, 0),     Rgb(25, 25, 112),
    Rgb(112, 128, 144), Rgb(0, 128, 0),     Rgb(188, 143, 143), Rgb(102, 51, 153),
    Rgb(184, 134, 11),  Rgb(0, 139, 139),   Rgb(205, 133, 63),  Rgb(70, 130, 180),
    Rgb(210, 105, 30),  Rgb(143, 188, 143), Rgb(0, 0, 139),     Rgb(50, 205, 50),
    Rgb(127, 0, 127),   Rgb(176, 48, 96),   Rgb(154, 205, 50),  Rgb(72, 209, 204),
    Rgb(153, 50, 204),  Rgb(255, 0, 0),     Rgb(255, 165, 0),   Rgb(255, 215, 0),
    Rgb(199, 21, 133),  Rgb(0, 0, 205),     Rgb(222, 184, 135), Rgb(0, 255, 0),
    Rgb(0, 250, 154),   Rgb(65, 105, 225),  Rgb(220, 20, 60),   Rgb(0, 255, 255),
    Rgb(0, 191, 255),   Rgb(147, 112, 219), Rgb(0, 0, 255),     Rgb(160, 32, 240),
    Rgb(240, 128, 128), Rgb(173, 255, 47),  Rgb(255, 99, 71),   Rgb(218, 112, 214),
    Rgb(216, 191, 216), Rgb(255, 0, 255),   Rgb(219, 112, 147), Rgb(240, 230, 140),
    Rgb(255, 255, 84),  Rgb(100, 149, 237), Rgb(221, 160, 221), Rgb(144, 238, 144),
    Rgb(135, 206, 235), Rgb(255, 20, 147),  Rgb(255, 160, 122), Rgb(175, 238, 238),
    Rgb(127, 255, 212), Rgb(255, 105, 180), Rgb(169, 169, 169), Rgb(255, 182, 193) >>

\* A generator that returns one colour too few.
generate_color_set_short == SubSeq(COLORS, 1, Len(COLORS) - 1)

\* A generator that returns the colours rotated by one place.
generate_color_set_rotated == Tail(COLORS) \o <<Head(COLORS)>>

\* &COLORS[..]
generate_color_set == COLORS

TransactionColorSet_new ==
    LET color_set == generate_color_set
        non_account_colors == SubSeq(color_set, 1, NUM_NON_ACCOUNT_COLORS)
    IN  [ signature_count_color                |-> non_account_colors[1],
          version_byte_color                   |-> non_account_colors[2],
          num_required_signatures_color        |-> non_account_colors[3],
          num_readonly_signed_accounts_color   |-> non_account_colors[4],
          num_readonly_unsigned_accounts_color |-> non_account_colors[5],
          recent_blockhash_color               |-> non_account_colors[6],
          num_instructions_color               |-> non_account_colors[7],
          instruction_num_accounts_color       |-> non_account_colors[8],
          instruction_accounts_color           |-> non_account_colors[9],
          instruction_data_length_color        |-> non_account_colors[10],
          instruction_data_color               |-> non_account_colors[11],
          atl_count_color                      |-> non_account_colors[12],
          atl_address_color                    |-> non_account_colors[13],
          atl_write_count_color                |-> non_account_colors[14],
          atl_read_count_color                 |-> non_account_colors[15],
          atl_write_set_color                  |-> non_account_colors[16],
          atl_read_set_color                   |-> non_account_colors[17],
          static_account_key_colors            |->
              SubSeq(color_set, NUM_NON_ACCOUNT_COLORS + 1, Len(color_set)) ]

Uninit == [uninit |-> TRUE]

\* COLOR_SET.with(..): the thread_local is constructed by its first use.
ColorSetWith(cs) == IF cs = Uninit THEN TransactionColorSet_new ELSE cs

---------------------------------------------------------------------------
(* The wire codec: short_vec's ShortU16 and bincode::serialize of a        *)
(* VersionedTransaction.                                                   *)

RECURSIVE ShortU16(_)
ShortU16(v) ==
    LET elem == v % 128
        rem_val == v \div 128
    IN  IF rem_val = 0 THEN <<elem>> ELSE <<elem + 128>> \o ShortU16(rem_val)

\* bincode::serialized_size(&ShortU16(len as u16))
ShortU16Size(len) == Len(ShortU16(len % 65536))

ShortVecBytes(v) == ShortU16(Len(v) % 65536) \o v

RECURSIVE SerializeInstructions(_)
SerializeInstructions(ins) ==
    IF ins = <<>> THEN <<>>
    ELSE LET i == Head(ins)
         IN  <<i.program_id_index>> \o ShortVecBytes(i.accounts) \o ShortVecBytes(i.data)
                 \o SerializeInstructions(Tail(ins))

RECURSIVE SerializeLookups(_)
SerializeLookups(atls) ==
    IF atls = <<>> THEN <<>>
    ELSE LET a == Head(atls)
         IN  a.account_key \o ShortVecBytes(a.writable_indexes)
                 \o ShortVecBytes(a.readonly_indexes) \o SerializeLookups(Tail(atls))

Serialize(t) ==
    ShortU16(Len(t.signatures) % 65536) \o Flatten(t.signatures)
        \o (IF t.versioned THEN <<128>> ELSE <<>>)
        \o <<t.header.num_required_signatures,
             t.header.num_readonly_signed_accounts,
             t.header.num_readonly_unsigned_accounts>>
        \o ShortU16(Len(t.account_keys) % 65536) \o Flatten(t.account_keys)
        \o t.recent_blockhash
        \o ShortU16(Len(t.instructions) % 65536) \o SerializeInstructions(t.instructions)
        \o (IF t.versioned
            THEN ShortU16(Len(t.address_table_lookups) % 65536)
                     \o SerializeLookups(t.address_table_lookups)
            ELSE <<>>)

---------------------------------------------------------------------------
(* The extractor.  A context c carries the section list, the cursor, the   *)
(* slices taken and the panic (if any) through the straight-line code; a   *)
(* panic unwinds, so nothing after it runs.                                *)

\* A get_bytes that returns the slice but leaves the cursor where it was.
get_bytes_no_advance(b, off, num_bytes) ==
    IF off + num_bytes > Len(b)
    THEN [fault |-> "slice_index", result |-> <<>>, offset |-> off]
    ELSE [fault |-> "none", result |-> SubSeq(b, off + 1, off + num_bytes),
          offset |-> off]

get_bytes(b, off, num_bytes) ==
    IF off + num_bytes > Len(b)
    THEN [fault |-> "slice_index", result |-> <<>>, offset |-> off]
    ELSE [fault |-> "none", result |-> SubSeq(b, off + 1, off + num_bytes),
          offset |-> off + num_bytes]

Section(label, bs, color) == [label |-> label, bytes |-> bs, color |-> color]

\* sections.push(TransactionByteSection { label, bytes: get_bytes(..), color })
\* with a colour that cannot fail.
Push(c, b, label, num_bytes, color) ==
    IF c.fault # "none" THEN c
    ELSE LET g == get_bytes(b, c.offset, num_bytes)
         IN  IF g.fault # "none" THEN [c EXCEPT !.fault = g.fault]
             ELSE [c EXCEPT !.offset = g.offset,
                            !.taken = Append(@, [start |-> c.offset, len |-> num_bytes]),
                            !.sections = Append(@, Section(label, g.result, color))]

\* The same push with color: static_account_key_colors[index], which is
\* evaluated after get_bytes and panics when index is outside the pool.
PushKeySlot(c, b, label, num_bytes, pool, index) ==
    IF c.fault # "none" THEN c
    ELSE LET g == get_bytes(b, c.offset, num_bytes)
         IN  IF g.fault # "none" THEN [c EXCEPT !.fault = g.fault]
             ELSE IF index >= Len(pool)
                  THEN [c EXCEPT !.offset = g.offset,
                                 !.taken = Append(@, [start |-> c.offset, len |-> num_bytes]),
                                 !.fault = "color_index"]
                  ELSE [c EXCEPT !.offset = g.offset,
                                 !.taken = Append(@, [start |-> c.offset, len |-> num_bytes]),
                                 !.sections = Append(@, Section(label, g.result, pool[index + 1]))]

IndexedLabel(name, index) == Some(name \o " (" \o ToString(index) \o ")")

RECURSIVE SignatureLoop(_, _, _, _, _)
SignatureLoop(c, b, cs, index, n) ==
    IF index >= n THEN c
    ELSE SignatureLoop(
             PushKeySlot(c, b, IndexedLabel("Signature", index), SignatureSize,
                         cs.static_account_key_colors, index),
             b, cs, index + 1, n)

add_signature_sections(c, t, b, cs) ==
    SignatureLoop(Push(c, b, Some("Signature Count"), 1, cs.signature_count_color),
                  b, cs, 0, Len(t.signatures))

\* A header that takes a version byte whatever the message version.
add_message_header_sections_any_version(c, t, b, cs) ==
    LET c0 == Push(c, b, Some("Version Byte"), 1, cs.version_byte_color)
        c1 == Push(c0, b, Some("num_required_signatures"), 1,
                   cs.num_required_signatures_color)
        c2 == Push(c1, b, Some("num_readonly_signed_accounts"), 1,
                   cs.num_readonly_signed_accounts_color)
    IN  Push(c2, b, Some("num_readonly_unsigned_accounts"), 1,
             cs.num_readonly_unsigned_accounts_color)

add_message_header_sections(c, t, b, cs) ==
    LET c0 == IF t.versioned
              THEN Push(c, b, Some("Version Byte"), 1, cs.version_byte_color)
              ELSE c
        c1 == Push(c0, b, Some("num_required_signatures"), 1,
                   cs.num_required_signatures_color)
        c2 == Push(c1, b, Some("num_readonly_signed_accounts"), 1,
                   cs.num_readonly_signed_accounts_color)
    IN  Push(c2, b, Some("num_readonly_unsigned_accounts"), 1,
             cs.num_readonly_unsigned_accounts_color)

RECURSIVE StaticKeyLoop(_, _, _, _, _)
StaticKeyLoop(c, b, cs, index, n) ==
    IF index >= n THEN c
    ELSE StaticKeyLoop(
             PushKeySlot(c, b, IndexedLabel("Static Account Key", index), PubkeySize,
                         cs.static_account_key_colors, index),
             b, cs, index + 1, n)

add_static_account_keys_sections(c, t, b, cs) ==
    StaticKeyLoop(Push(c, b, Some("Static Account Keys Count"), 1, Yellow),
                  b, cs, 0, Len(t.account_keys))

\* A blockhash section painted with the instruction count's colour.
add_recent_blockhash_section_wrong_color(c, t, b, cs) ==
    Push(c, b, Some("Recent Blockhash"), HashSize, cs.num_instructions_color)

add_recent_blockhash_section(c, t, b, cs) ==
    Push(c, b, Some("Recent Blockhash"), HashSize, cs.recent_blockhash_color)

\* A lookup of the program id's colour that is off by one slot.
ProgramIdColorOffByOne(cs, program_id_index) ==
    IF program_id_index >= 1 /\ program_id_index <= Len(cs.static_account_key_colors)
    THEN cs.static_account_key_colors[program_id_index]
    ELSE White

\* static_account_key_colors.get(program_id_index).copied().unwrap_or(Color::White)
ProgramIdColor(cs, program_id_index) ==
    IF program_id_index < Len(cs.static_account_key_colors)
    THEN cs.static_account_key_colors[program_id_index + 1]
    ELSE White

InstructionSections(c, b, cs, instruction) ==
    LET c1 == Push(c, b, None, 1, ProgramIdColor(cs, instruction.program_id_index))
        c2 == Push(c1, b, Some("Instruction Number of Accounts"),
                   ShortU16Size(Len(instruction.accounts)),
                   cs.instruction_num_accounts_color)
        c3 == Push(c2, b, Some("Instruction Accounts"), Len(instruction.accounts),
                   cs.instruction_accounts_color)
        c4 == Push(c3, b, Some("Instruction Data Length"),
                   ShortU16Size(Len(instruction.data)),
                   cs.instruction_data_length_color)
    IN  Push(c4, b, Some("Instruction Data"), Len(instruction.data),
             cs.instruction_data_color)

RECURSIVE InstructionLoop(_, _, _, _)
InstructionLoop(c, b, cs, ins) ==
    IF ins = <<>> THEN c
    ELSE InstructionLoop(InstructionSections(c, b, cs, Head(ins)), b, cs, Tail(ins))

add_instructions_sections(c, t, b, cs) ==
    InstructionLoop(
        Push(c, b, Some("Number of Instructions"), ShortU16Size(Len(t.instructions)),
             cs.num_instructions_color),
        b, cs, t.instructions)

\* let n_bytes = get_bytes(bytes, offset, 1); let n = n_bytes[0] as usize;
\* read back from the section just pushed (unused once the call has panicked).
LastByteRead(c) ==
    IF c.fault = "none" /\ c.sections # <<>> /\ c.sections[Len(c.sections)].bytes # <<>>
    THEN c.sections[Len(c.sections)].bytes[1]
    ELSE 0

LookupSections(c, b, cs) ==
    LET c1 == Push(c, b, Some("Message Address Table Lookup Address"), PubkeySize,
                   cs.atl_address_color)
        c2 == Push(c1, b, Some("Message Address Table Lookup Write Count"), 1,
                   cs.atl_write_count_color)
        c3 == Push(c2, b, Some("Message Address Table Lookup Write Set"),
                   LastByteRead(c2), cs.atl_write_set_color)
        c4 == Push(c3, b, Some("Message Address Table Lookup Read Count"), 1,
                   cs.atl_read_count_color)
    IN  Push(c4, b, Some("Message Address Table Lookup Read Set"),
             LastByteRead(c4), cs.atl_read_set_color)

RECURSIVE LookupLoop(_, _, _, _)
LookupLoop(c, b, cs, n) ==
    IF n = 0 THEN c
    ELSE LookupLoop(LookupSections(c, b, cs), b, cs, n - 1)

add_message_address_table_lookups_sections(c, t, b, cs) ==
    IF ~t.versioned THEN c
    ELSE LookupLoop(
             Push(c, b, Some("Message Address Table Lookups Count"),
                  ShortU16Size(Len(t.address_table_lookups)), cs.atl_count_color),
             b, cs, Len(t.address_table_lookups))

---------------------------------------------------------------------------
(* The widgets.                                                            *)

NoGrid == [widget |-> "none", fault |-> "none", num_lines |-> 0, cells |-> <<>>]

\* The byte loop of render_inner: byte_index bytes are already placed and
\* line_index is the row of current_line_layout.  lines has num_lines rows;
\* lines[line_index] past its end panics.
\* A byte loop that never moves to the next line.
RECURSIVE RenderBytesNoWrap(_, _, _, _, _, _)
RenderBytesNoWrap(stream, byte_index, line_index, bytes_per_line, num_lines, cells) ==
    IF byte_index >= Len(stream) THEN [fault |-> "none", cells |-> cells]
    ELSE LET placed == Append(cells, [row   |-> line_index,
                                      col   |-> byte_index % bytes_per_line,
                                      byte  |-> stream[byte_index + 1].byte,
                                      color |-> stream[byte_index + 1].color])
             next_index == byte_index + 1
         IN  IF Len(placed) # next_index THEN [fault |-> "none", cells |-> placed]
             ELSE RenderBytesNoWrap(stream, next_index, line_index, bytes_per_line,
                                    num_lines, placed)

RECURSIVE RenderBytes(_, _, _, _, _, _)
RenderBytes(stream, byte_index, line_index, bytes_per_line, num_lines, cells) ==
    IF byte_index >= Len(stream) THEN [fault |-> "none", cells |-> cells]
    ELSE LET placed == Append(cells, [row   |-> line_index,
                                      col   |-> byte_index % bytes_per_line,
                                      byte  |-> stream[byte_index + 1].byte,
                                      color |-> stream[byte_index + 1].color])
             next_index == byte_index + 1
             wrap == next_index % bytes_per_line = 0
             next_line == IF wrap THEN line_index + 1 ELSE line_index
         IN  IF Len(placed) = next_index /\ wrap /\ next_line >= num_lines
             THEN [fault |-> "layout_index", cells |-> placed]
             ELSE RenderBytes(stream, next_index, next_line, bytes_per_line, num_lines,
                              placed)

\* for section in sections { for byte in section.bytes { .. section.color .. } }
RECURSIVE ByteStream(_, _)
ByteStream(byte_sections, colors) ==
    IF byte_sections = <<>> \/ colors = <<>> THEN <<>>
    ELSE [k \in 1..Len(Head(byte_sections)) |->
              [byte |-> Head(byte_sections)[k], color |-> Head(colors)]]
             \o ByteStream(Tail(byte_sections), Tail(colors))

\* A render_inner that returns early when no byte fits a line.
render_inner_guarded(widget, byte_sections, colors, width) ==
    LET len_bytes == SumLens(byte_sections)
        bytes_per_line == width \div 3
    IN  IF len_bytes = 0 \/ bytes_per_line = 0 THEN [NoGrid EXCEPT !.widget = widget]
        ELSE LET num_lines == (len_bytes \div bytes_per_line)
                                  + (IF len_bytes % bytes_per_line = 0 THEN 0 ELSE 1)
                 r == RenderBytes(ByteStream(byte_sections, colors), 0, 0,
                                  bytes_per_line, num_lines, <<>>)
             IN  [widget |-> widget, fault |-> r.fault, num_lines |-> num_lines,
                  cells |-> r.cells]

render_inner(widget, byte_sections, colors, width) ==
    LET len_bytes == SumLens(byte_sections)
        bytes_per_line == width \div 3
    IN  IF len_bytes = 0 THEN [NoGrid EXCEPT !.widget = widget]
        ELSE IF bytes_per_line = 0
             THEN [widget |-> widget, fault |-> "divide_by_zero", num_lines |-> 0,
                   cells |-> <<>>]
             ELSE LET num_lines == (len_bytes \div bytes_per_line)
                                       + (IF len_bytes % bytes_per_line = 0 THEN 0 ELSE 1)
                      r == RenderBytes(ByteStream(byte_sections, colors), 0, 0,
                                       bytes_per_line, num_lines, <<>>)
                  IN  [widget |-> widget, fault |-> r.fault, num_lines |-> num_lines,
                       cells |-> r.cells]

SectionColors(secs) == [i \in 1..Len(secs) |-> secs[i].color]

\* A legend that never removes a label it has shown.
RECURSIVE LegendLinesNoRemove(_, _)
LegendLinesNoRemove(secs, unique_lines) ==
    IF secs = <<>> THEN <<>>
    ELSE LET s == Head(secs)
         IN  IF s.label \in unique_lines
             THEN <<[label |-> s.label[1], color |-> s.color]>>
                      \o LegendLinesNoRemove(Tail(secs), unique_lines)
             ELSE LegendLinesNoRemove(Tail(secs), unique_lines)

RECURSIVE LegendLines(_, _)
LegendLines(secs, unique_lines) ==
    IF secs = <<>> THEN <<>>
    ELSE LET s == Head(secs)
         IN  IF s.label \in unique_lines
             THEN <<[label |-> s.label[1], color |-> s.color]>>
                      \o LegendLines(Tail(secs), unique_lines \ {s.label})
             ELSE LegendLines(Tail(secs), unique_lines)

NoLegend == [rendered |-> FALSE, lines |-> <<>>]

Legend_render_inner(secs) ==
    LET unique_lines == {secs[i].label : i \in {j \in 1..Len(secs) : secs[j].label # None}}
        num_unique_lines == Cardinality(unique_lines)
        legend_lines == LegendLines(secs, unique_lines)
    IN  SubSeq(legend_lines, 1,
               IF Len(legend_lines) < num_unique_lines THEN Len(legend_lines)
               ELSE num_unique_lines)

---------------------------------------------------------------------------
(* The transactions explored.                                              *)

SeqsUpTo(S, n) == UNION {[1..k -> S] : k \in 0..n}

MkInstr(program_id_index, num_accounts, data_len) ==
    [program_id_index |-> program_id_index,
     accounts |-> [k \in 1..num_accounts |-> (k - 1) % 256],
     data |-> Fill(data_len, 170)]

MkLookup(num_write, write_index, num_read) ==
    [account_key |-> Fill(PubkeySize, 200),
     writable_indexes |-> Fill(num_write, write_index),
     readonly_indexes |-> Fill(num_read, 9)]

MkTx(num_sigs, versioned, num_keys, instructions, lookups) ==
    [signatures |-> [i \in 1..num_sigs |-> Fill(SignatureSize, i % 256)],
     versioned |-> versioned,
     header |-> [num_required_signatures |-> num_sigs % 256,
                 num_readonly_signed_accounts |-> 0,
                 num_readonly_unsigned_accounts |-> 1],
     account_keys |-> [j \in 1..num_keys |-> Fill(PubkeySize, (100 + j) % 256)],
     recent_blockhash |-> Fill(HashSize, 7),
     instructions |-> instructions,
     address_table_lookups |-> lookups]

\* An instruction with no accounts, no data and a program id outside the
\* key-slot pool, and one with accounts and data; a lookup with empty index
\* sets and one without.
InstrShapes == {MkInstr(250, 0, 0), MkInstr(1, 2, 3)}
LookupShapes == {MkLookup(0, 0, 0), MkLookup(2, 5, 1)}

SmallTxs ==
    {MkTx(ns, v, nk, ins, IF v THEN atls ELSE <<>>) :
        ns \in 0..MaxSigs, v \in BOOLEAN, nk \in 0..MaxKeys,
        ins \in SeqsUpTo(InstrShapes, MaxInstrs),
        atls \in SeqsUpTo(LookupShapes, MaxLookups)}

\* The end-to-end scenario: legacy, 1 signature, 2 static keys, 1 instruction
\* referencing account index 0 with 3 bytes of data.
ScenarioTx ==
    MkTx(1, FALSE, 2, <<[program_id_index |-> 1, accounts |-> <<0>>, data |-> <<1, 2, 3>>]>>,
         <<>>)

\* Counts at and past the limits of the code: a count whose compact length is
\* 2 or 3 bytes, and a position past the 43 key-slot colours.
LargeTxs ==
    { MkTx(44, FALSE, 1, <<>>, <<>>),
      MkTx(1, FALSE, 44, <<>>, <<>>),
      MkTx(1, FALSE, 1, <<MkInstr(0, 128, 130)>>, <<>>),
      MkTx(1, TRUE, 1, <<MkInstr(0, 1, 16384)>>, <<>>),
      MkTx(1, TRUE, 1, <<>>, <<MkLookup(128, 0, 0)>>),
      MkTx(1, TRUE, 1, <<>>, <<MkLookup(128, 1, 0)>>),
      MkTx(1, TRUE, 1, <<>>, <<MkLookup(128, 2, 0)>>),
      MkTx(1, TRUE, 1, <<>>, <<MkLookup(1, 3, 130)>>),
      MkTx(1, TRUE, 1, <<>>, <<MkLookup(128, 0, 1), MkLookup(0, 0, 0)>>),
      MkTx(1, FALSE, 1, <<MkInstr(42, 0, 0), MkInstr(43, 0, 0)>>, <<>>) }

Transactions == SmallTxs \cup {ScenarioTx} \cup LargeTxs

\* The transactions a later call on the same list is explored with.
AgainTransactions ==
    { ScenarioTx,
      MkTx(0, FALSE, 0, <<>>, <<>>),
      MkTx(1, TRUE, 1, <<MkInstr(250, 1, 0)>>, <<MkLookup(2, 5, 0)>>),
      MkTx(1, FALSE, 44, <<>>, <<>>),
      MkTx(1, TRUE, 1, <<>>, <<MkLookup(128, 2, 0)>>) }

NoTx == MkTx(0, FALSE, 0, <<>>, <<>>)

---------------------------------------------------------------------------
(* The extraction, one action per call of get_transaction_byte_sections'   *)
(* body.                                                                   *)

Ctx == [sections |-> sections, offset |-> offset, taken |-> taken, fault |-> fault]

Step(c, next_pc) ==
    /\ sections' = c.sections
    /\ offset' = c.offset
    /\ taken' = c.taken
    /\ fault' = c.fault
    /\ pc' = IF c.fault = "none" THEN next_pc ELSE "panicked"

\* A call that forgets to clear the reusable list.
ClearNothing(secs) == secs

\* sections.clear()
Clear(secs) == <<>>

\* Entry of get_transaction_byte_sections(transaction, sections): lines 27-33.
Start(t) ==
    /\ \/ pc = "idle"
       \/ pc = "done" /\ t \in AgainTransactions
    /\ tx' = t
    /\ sections' = Clear(sections)
    /\ bytes' = Serialize(t)
    /\ offset' = 0
    /\ taken' = <<>>
    /\ fault' = "none"
    /\ pc' = "signatures"
    /\ calls' = IF pc = "done" THEN "again" ELSE calls
    /\ UNCHANGED <<COLOR_SET, area_width, grid, legend>>

AddSignatureSections ==
    /\ pc = "signatures"
    /\ Step(add_signature_sections(Ctx, tx, bytes, ColorSetWith(COLOR_SET)), "header")
    /\ COLOR_SET' = IF Len(bytes) >= 1 THEN ColorSetWith(COLOR_SET) ELSE COLOR_SET
    /\ UNCHANGED <<tx, bytes, calls, area_width, grid, legend>>

AddMessageHeaderSections ==
    /\ pc = "header"
    /\ Step(add_message_header_sections(Ctx, tx, bytes, ColorSetWith(COLOR_SET)), "keys")
    /\ UNCHANGED <<tx, bytes, COLOR_SET, calls, area_width, grid, legend>>

AddStaticAccountKeysSections ==
    /\ pc = "keys"
    /\ Step(add_static_account_keys_sections(Ctx, tx, bytes, ColorSetWith(COLOR_SET)),
            "blockhash")
    /\ UNCHANGED <<tx, bytes, COLOR_SET, calls, area_width, grid, legend>>

AddRecentBlockhashSection ==
    /\ pc = "blockhash"
    /\ Step(add_recent_blockhash_section(Ctx, tx, bytes, ColorSetWith(COLOR_SET)),
            "instructions")
    /\ UNCHANGED <<tx, bytes, COLOR_SET, calls, area_width, grid, legend>>

AddInstructionsSections ==
    /\ pc = "instructions"
    /\ Step(add_instructions_sections(Ctx, tx, bytes, ColorSetWith(COLOR_SET)), "lookups")
    /\ UNCHANGED <<tx, bytes, COLOR_SET, calls, area_width, grid, legend>>

AddMessageAddressTableLookupsSections ==
    /\ pc = "lookups"
    /\ Step(add_message_address_table_lookups_sections(Ctx, tx, bytes,
                                                       ColorSetWith(COLOR_SET)), "done")
    /\ UNCHANGED <<tx, bytes, COLOR_SET, calls, area_width, grid, legend>>

Init ==
    /\ tx = NoTx
    /\ bytes = <<>>
    /\ sections = <<>>
    /\ offset = 0
    /\ taken = <<>>
    /\ fault = "none"
    /\ pc = "idle"
    /\ COLOR_SET = Uninit
    /\ calls = "first"
    /\ area_width = 0
    /\ grid = NoGrid
    /\ legend = NoLegend

Next ==
    \/ \E t \in Transactions : Start(t)
    \/ AddSignatureSections
    \/ AddMessageHeaderSections
    \/ AddStaticAccountKeysSections
    \/ AddRecentBlockhashSection
    \/ AddInstructionsSections
    \/ AddMessageAddressTableLookupsSections

Spec == Init /\ [][Next]_vars

---------------------------------------------------------------------------
(* The widgets, rendered over section lists of every shape: labels absent, *)
(* repeated, repeated with another colour; sections empty or not.          *)

WidgetSections ==
    { Section(None, <<1>>, White),
      Section(Some("A"), <<2, 3>>, Yellow),
      Section(Some("A"), <<>>, White),
      Section(Some("B"), <<4>>, Yellow),
      Section(Some("B"), <<5, 6, 7>>, Rgb(1, 2, 3)) }

\* 40 bytes and 41 bytes, to be laid out 20 to the row.
WideSectionLists ==
    { <<Section(Some("A"), Fill(40, 0), Yellow)>>,
      <<Section(Some("A"), Fill(20, 0), Yellow), Section(None, Fill(21, 255), White)>> }

WideWidth == 60

Widths == 0..MaxWidth \cup {WideWidth}

\* Widget::render for &TransactionByteBlock, on an inner area w columns wide.
TransactionByteBlockRender(w) ==
    /\ pc = "widgets"
    /\ grid.fault = "none"
    /\ area_width' = w
    /\ grid' = render_inner("TransactionByteBlock", SectionBytes(sections),
                            SectionColors(sections), w)
    /\ UNCHANGED <<tx, bytes, sections, offset, taken, fault, pc, COLOR_SET, calls, legend>>

\* Widget::render for &ByteBlock over the same bytes and colours.
ByteBlockRender(w) ==
    /\ pc = "widgets"
    /\ grid.fault = "none"
    /\ area_width' = w
    /\ grid' = render_inner("ByteBlock", SectionBytes(sections), SectionColors(sections), w)
    /\ UNCHANGED <<tx, bytes, sections, offset, taken, fault, pc, COLOR_SET, calls, legend>>

\* Widget::render for &ByteSectionLegend.
ByteSectionLegendRender ==
    /\ pc = "widgets"
    /\ grid.fault = "none"
    /\ legend' = [rendered |-> TRUE, lines |-> Legend_render_inner(sections)]
    /\ UNCHANGED <<tx, bytes, sections, offset, taken, fault, pc, COLOR_SET, calls,
                   area_width, grid>>

InitWidgets ==
    /\ tx = NoTx
    /\ bytes = <<>>
    /\ sections \in SeqsUpTo(WidgetSections, MaxWidgetSections) \cup WideSectionLists
    /\ offset = 0
    /\ taken = <<>>
    /\ fault = "none"
    /\ pc = "widgets"
    /\ COLOR_SET = Uninit
    /\ calls = "first"
    /\ area_width = 0
    /\ grid = NoGrid
    /\ legend = NoLegend

NextWidgets ==
    \/ \E w \in Widths : TransactionByteBlockRender(w)
    \/ \E w \in Widths : ByteBlockRender(w)
    \/ ByteSectionLegendRender

SpecWidgets == InitWidgets /\ [][NextWidgets]_vars

---------------------------------------------------------------------------
(* Properties of the extraction.                                           *)

Extracting == pc \in {"signatures", "header", "keys", "blockhash", "instructions",
                      "lookups", "done", "panicked"}

\* The cumulative offset in front of section i (1-based), from the lengths.
StartOf(secs, i) == SumLens(SectionBytes(SubSeq(secs, 1, i - 1)))

IsPrefix(a, b) == Len(a) <= Len(b) /\ a = SubSeq(b, 1, Len(a))

\* C1: totality.  When get_transaction_byte_sections has returned, the
\* sections' bytes concatenated in list order are the serialized buffer, and
\* their lengths add up to the buffer's length.
C1_Totality ==
    pc = "done" =>
        /\ Flatten(SectionBytes(sections)) = bytes
        /\ SumLens(SectionBytes(sections)) = Len(bytes)

\* C2: non-overlap and order.  When the call has returned, the cumulative
\* offsets implied by the section lengths start at 0, increase strictly from
\* one section to the next, each section is the buffer's bytes between its
\* two offsets, and the last offset is the buffer's length.
C2_OffsetsStrictAndContiguous ==
    pc = "done" =>
        /\ \A i \in 1..Len(sections) :
              /\ StartOf(sections, i) < StartOf(sections, i + 1)
              /\ StartOf(sections, i + 1) <= Len(bytes)
              /\ sections[i].bytes
                     = SubSeq(bytes, StartOf(sections, i) + 1, StartOf(sections, i + 1))
        /\ StartOf(sections, Len(sections) + 1) = Len(bytes)

\* The wire order of the fields, as labels, for a transaction t.
InstructionLabels ==
    << None, Some("Instruction Number of Accounts"), Some("Instruction Accounts"),
       Some("Instruction Data Length"), Some("Instruction Data") >>

LookupLabels ==
    << Some("Message Address Table Lookup Address"),
       Some("Message Address Table Lookup Write Count"),
       Some("Message Address Table Lookup Write Set"),
       Some("Message Address Table Lookup Read Count"),
       Some("Message Address Table Lookup Read Set") >>

WireOrder(t) ==
    <<Some("Signature Count")>>
        \o [i \in 1..Len(t.signatures) |-> IndexedLabel("Signature", i - 1)]
        \o (IF t.versioned THEN <<Some("Version Byte")>> ELSE <<>>)
        \o << Some("num_required_signatures"), Some("num_readonly_signed_accounts"),
              Some("num_readonly_unsigned_accounts"), Some("Static Account Keys Count") >>
        \o [j \in 1..Len(t.account_keys) |-> IndexedLabel("Static Account Key", j - 1)]
        \o << Some("Recent Blockhash"), Some("Number of Instructions") >>
        \o Flatten([k \in 1..Len(t.instructions) |-> InstructionLabels])
        \o (IF t.versioned
            THEN <<Some("Message Address Table Lookups Count")>>
                     \o Flatten([k \in 1..Len(t.address_table_lookups) |-> LookupLabels])
            ELSE <<>>)

SectionLabels(secs) == [i \in 1..Len(secs) |-> secs[i].label]
SectionLengths(secs) == [i \in 1..Len(secs) |-> Len(secs[i].bytes)]

ScenarioLabels ==
    << Some("Signature Count"), Some("Signature (0)"),
       Some("num_required_signatures"), Some("num_readonly_signed_accounts"),
       Some("num_readonly_unsigned_accounts"),
       Some("Static Account Keys Count"), Some("Static Account Key (0)"),
       Some("Static Account Key (1)"), Some("Recent Blockhash"),
       Some("Number of Instructions"), None, Some("Instruction Number of Accounts"),
       Some("Instruction Accounts"), Some("Instruction Data Length"),
       Some("Instruction Data") >>

ScenarioLengths == <<1, 64, 1, 1, 1, 1, 32, 32, 32, 1, 1, 1, 1, 1, 3>>

\* C3: wire order.  At every point of an extraction the labels emitted so far
\* are the beginning of the wire order of the transaction's fields (version
\* byte only for a versioned message, lookups last), and all of it when the
\* call has returned; the legacy scenario with 1 signature, 2 static keys and
\* 1 instruction yields exactly its 15 sections, with the listed lengths,
\* which add up to the buffer's length.
C3_WireOrder ==
    /\ Extracting => IsPrefix(SectionLabels(sections), WireOrder(tx))
    /\ pc = "done" => SectionLabels(sections) = WireOrder(tx)
    /\ (pc = "done" /\ tx = ScenarioTx) =>
          /\ SectionLabels(sections) = ScenarioLabels
          /\ SectionLengths(sections) = ScenarioLengths
          /\ SumLens(SectionBytes(sections)) = Len(bytes)

C3_Witness ==
    /\ pc = "done"
    /\ tx = ScenarioTx
    /\ Len(sections) = 15
    /\ Len(bytes) = 173

\* C4: truncation fault.  A field whose length would move the cursor past the
\* end of the buffer is reported as a typed fault: the call never aborts with
\* a panic on the slice.
C4_NoPanicOnTruncation == fault # "slice_index"

\* C5: state on fault.  When an extraction has failed, the list holds exactly
\* the sections this call emitted before the failing field: the k-th section
\* is the whole of the k-th slice taken from the buffer, the slices follow
\* one another from offset 0, at most the one slice of the failing push was
\* taken without being emitted, and nothing older is in the list.
C5_StateOnFault ==
    pc = "panicked" =>
        /\ Len(sections) <= Len(taken)
        /\ Len(taken) <= Len(sections) + 1
        /\ \A k \in 1..Len(taken) :
              taken[k].start = (IF k = 1 THEN 0 ELSE taken[k - 1].start + taken[k - 1].len)
        /\ \A k \in 1..Len(sections) :
              /\ Len(sections[k].bytes) = taken[k].len
              /\ sections[k].bytes
                     = SubSeq(bytes, taken[k].start + 1, taken[k].start + taken[k].len)
              /\ sections[k].label = WireOrder(tx)[k]

C5_Witness ==
    /\ pc = "panicked"
    /\ calls = "again"
    /\ sections # <<>>
    /\ fault = "slice_index"

\* The number of earlier-or-equal sections carrying the label of section i.
Occurrence(secs, i) == Cardinality({j \in 1..i : secs[j].label = secs[i].label})

\* The count a count-prefix section carries, or -1 for any other section.
CountCarried(t, secs, i) ==
    LET l == secs[i].label
        k == Occurrence(secs, i)
    IN  IF l = Some("Signature Count") THEN Len(t.signatures)
        ELSE IF l = Some("Static Account Keys Count") THEN Len(t.account_keys)
        ELSE IF l = Some("Number of Instructions") THEN Len(t.instructions)
        ELSE IF l = Some("Instruction Number of Accounts")
             THEN Len(t.instructions[k].accounts)
        ELSE IF l = Some("Instruction Data Length") THEN Len(t.instructions[k].data)
        ELSE IF l = Some("Message Address Table Lookups Count")
             THEN Len(t.address_table_lookups)
        ELSE IF l = Some("Message Address Table Lookup Write Count")
             THEN Len(t.address_table_lookups[k].writable_indexes)
        ELSE IF l = Some("Message Address Table Lookup Read Count")
             THEN Len(t.address_table_lookups[k].readonly_indexes)
        ELSE -1

CompactWidth(n) == IF n < 128 THEN 1 ELSE IF n < 16384 THEN 2 ELSE 3

\* C6: count-prefix width.  Every count-prefix section is as long as the
\* compact-length encoding of the count it carries: 1 byte below 128, 2 below
\* 16384, 3 otherwise.
C6_CountPrefixWidth ==
    Extracting =>
        \A i \in 1..Len(sections) :
            CountCarried(tx, sections, i) >= 0 =>
                Len(sections[i].bytes) = CompactWidth(CountCarried(tx, sections, i))

---------------------------------------------------------------------------
(* Properties of the widgets.                                              *)

\* The index of the first section carrying label l.
FirstWith(secs, l) == CHOOSE i \in 1..Len(secs) :
                          /\ secs[i].label = l
                          /\ \A j \in 1..(i - 1) : secs[j].label # l

LabelsOf(secs) == {secs[i].label : i \in 1..Len(secs)} \ {None}

\* C7: legend dedup.  The rendered legend has exactly one entry per distinct
\* label present in the section list, in the order of the labels' first
\* occurrences, each with the colour of that first occurrence; sections
\* without a label add nothing.
C7_LegendDedup ==
    legend.rendered =>
        /\ Len(legend.lines) = Cardinality(LabelsOf(sections))
        /\ {Some(legend.lines[k].label) : k \in 1..Len(legend.lines)} = LabelsOf(sections)
        /\ \A k \in 1..Len(legend.lines) :
              legend.lines[k].color
                  = sections[FirstWith(sections, Some(legend.lines[k].label))].color
        /\ \A k, m \in 1..Len(legend.lines) :
              k < m => FirstWith(sections, Some(legend.lines[k].label))
                           < FirstWith(sections, Some(legend.lines[m].label))

\* A list where a label comes back with another colour after an unlabelled
\* section and another label.
C7_Witness ==
    /\ legend.rendered
    /\ Len(sections) = 3
    /\ sections[1].label = Some("A")
    /\ sections[2].label = None
    /\ sections[3].label = Some("A")
    /\ sections[3].color # sections[1].color
    /\ legend.lines = <<[label |-> "A", color |-> sections[1].color]>>

TotalBytes(secs) == SumLens(SectionBytes(secs))

CeilDiv(a, b) == (a + b - 1) \div b

RowsOf(g) == {g.cells[k].row : k \in 1..Len(g.cells)}

\* C8: grid row count.  For a list of at least one byte and an area at least
\* 3 columns wide, the grid renderer completes and lays out
\* ceil(total_bytes / floor(width / 3)) rows, all of them used.
C8_GridRowCount ==
    (grid.widget # "none" /\ TotalBytes(sections) > 0 /\ area_width \div 3 >= 1) =>
        /\ grid.fault = "none"
        /\ grid.num_lines = CeilDiv(TotalBytes(sections), area_width \div 3)
        /\ RowsOf(grid) = 0..(grid.num_lines - 1)

\* The renderer's share of C9: a list of zero bytes in total renders no row
\* and no cell, and fails for no width.
EmptyGridRendersNothing ==
    (grid.widget # "none" /\ TotalBytes(sections) = 0) =>
        grid.fault = "none" /\ grid.num_lines = 0 /\ grid.cells = <<>>

\* The extractor's share of C9 has no case: a serialized transaction holds at
\* least its signature count, header, key count, blockhash and instruction
\* count.
SerializedNeverEmpty == Extracting => Len(bytes) >= 38

---------------------------------------------------------------------------
(* Properties of the colour set.                                           *)

\* The colours a colour set holds, roles first, in declaration order.
ColorsOf(cs) ==
    << cs.signature_count_color, cs.version_byte_color, cs.num_required_signatures_color,
       cs.num_readonly_signed_accounts_color, cs.num_readonly_unsigned_accounts_color,
       cs.recent_blockhash_color, cs.num_instructions_color,
       cs.instruction_num_accounts_color, cs.instruction_accounts_color,
       cs.instruction_data_length_color, cs.instruction_data_color, cs.atl_count_color,
       cs.atl_address_color, cs.atl_write_count_color, cs.atl_read_count_color,
       cs.atl_write_set_color, cs.atl_read_set_color >>
        \o cs.static_account_key_colors

RequestedCounts == {1, 17, 60}

\* generate_color_set() has no count parameter: the colours a caller that
\* wants n colours gets are the ones the colour set was built from.
Generated(n) == ColorsOf(COLOR_SET)

\* C10 as stated: for each requested count n in {1, 17, 60}, the colours
\* generated are the same on every call and exactly n of them.
C10_ExactlyRequestedCount ==
    COLOR_SET # Uninit =>
        \A n \in RequestedCounts : Generated(n) = COLORS /\ Len(Generated(n)) = n

\* C10 amended: the generator takes no count; the colours generated are the
\* same fixed sequence of exactly 60 colours in every call.
C10_FixedSixtyColors ==
    COLOR_SET # Uninit =>
        ColorsOf(COLOR_SET) = COLORS /\ Len(ColorsOf(COLOR_SET)) = 60

C10_Witness ==
    /\ COLOR_SET # Uninit
    /\ calls = "again"
    /\ pc = "done"

---------------------------------------------------------------------------
(* Further properties of the extraction.                                   *)

\* What the add_* calls make of transaction t on a fresh, empty list.
Decomposition(t) ==
    LET b  == Serialize(t)
        cs == TransactionColorSet_new
        c0 == [sections |-> <<>>, offset |-> 0, taken |-> <<>>, fault |-> "none"]
        c1 == add_signature_sections(c0, t, b, cs)
        c2 == add_message_header_sections(c1, t, b, cs)
        c3 == add_static_account_keys_sections(c2, t, b, cs)
        c4 == add_recent_blockhash_section(c3, t, b, cs)
        c5 == add_instructions_sections(c4, t, b, cs)
    IN  add_message_address_table_lookups_sections(c5, t, b, cs).sections

\* C11: re-invocation.  Whenever a call on the reusable list has returned,
\* the first or a later one, the list is the decomposition of that call's
\* transaction alone, whatever the list held when the call began.
C11_Reinvocation == pc = "done" => sections = Decomposition(tx)

C11_Witness ==
    /\ pc = "done"
    /\ calls = "again"
    /\ tx = ScenarioTx
    /\ Len(sections) = 15

IsLookupLabel(l) ==
    l = Some("Message Address Table Lookups Count") \/ l \in {LookupLabels[k] : k \in 1..5}

LookupSectionLabels(secs) ==
    LET Test(l) == IsLookupLabel(l) IN SelectSeq(SectionLabels(secs), Test)

CallEnded == pc \in {"done", "panicked"}

\* C12: absent lookups.  A legacy message whose other fields were all emitted
\* ends the call without a fault and with no address-table-lookup section; a
\* versioned message whose lookup count was emitted ends the call with the
\* count section followed by exactly five sections per lookup entry.
C12_AbsentLookups ==
    /\ (CallEnded /\ ~tx.versioned /\ SectionLabels(sections) = WireOrder(tx)) =>
          fault = "none" /\ LookupSectionLabels(sections) = <<>>
    /\ (CallEnded /\ ~tx.versioned) => LookupSectionLabels(sections) = <<>>
    /\ (CallEnded /\ tx.versioned /\ LookupSectionLabels(sections) # <<>>) =>
          LookupSectionLabels(sections)
              = <<Some("Message Address Table Lookups Count")>>
                    \o Flatten([k \in 1..Len(tx.address_table_lookups) |-> LookupLabels])

\* The colour the key-slot pool of the 60 colours gives position p, if any.
PoolSize == Len(COLORS) - NUM_NON_ACCOUNT_COLORS
PoolColor(p) == COLORS[NUM_NON_ACCOUNT_COLORS + p + 1]

InstructionsEmitted ==
    \E i \in 1..Len(sections) : sections[i].label = Some("Number of Instructions")

\* C13: program-id-index section.  Once the instruction count is emitted,
\* every instruction has its unlabelled 1-byte section holding its
\* program_id_index, coloured with the key-slot colour at that index when the
\* index is inside the pool and white when it is not; no index fails the call.
C13_ProgramIdSection ==
    InstructionsEmitted =>
        /\ Cardinality({i \in 1..Len(sections) : sections[i].label = None})
               = Len(tx.instructions)
        /\ \A i \in 1..Len(sections) :
              sections[i].label = None =>
                  LET pid == tx.instructions[Occurrence(sections, i)].program_id_index
                  IN  /\ sections[i].bytes = <<pid>>
                      /\ sections[i].color
                             = (IF pid < PoolSize THEN PoolColor(pid) ELSE White)

\* The last slot of the pool, the first index past it and a far index.
C13_Witness ==
    /\ pc = "done"
    /\ Len(tx.instructions) = 2
    /\ tx.instructions[1].program_id_index = 42
    /\ tx.instructions[2].program_id_index = 43
    /\ \E i \in 1..Len(sections) : sections[i].label = None /\ sections[i].color = White
    /\ \E i \in 1..Len(sections) : sections[i].label = None /\ sections[i].color = PoolColor(42)

\* C14: key-slot coverage.  No signature or static key position is outside
\* the key-slot pool: the call never fails on a key-slot colour, and when it
\* has ended every signature (i) and static key (j) has its section, coloured
\* pool[i] and pool[j].
C14_KeySlotCoverage ==
    /\ fault # "color_index"
    /\ CallEnded =>
          /\ \A i \in 0..(Len(tx.signatures) - 1) :
                \E k \in 1..Len(sections) :
                    /\ sections[k].label = IndexedLabel("Signature", i)
                    /\ sections[k].color = PoolColor(i)
          /\ \A j \in 0..(Len(tx.account_keys) - 1) :
                \E k \in 1..Len(sections) :
                    /\ sections[k].label = IndexedLabel("Static Account Key", j)
                    /\ sections[k].color = PoolColor(j)

Labelled(secs) == {i \in 1..Len(secs) : secs[i].label # None}

\* C15 as stated: two labelled sections have the same label if and only if
\* they have the same colour.
C15_LabelIffColor ==
    \A i, j \in Labelled(sections) :
        (sections[i].label = sections[j].label) <=> (sections[i].color = sections[j].color)

SameKeySlot(l1, l2) ==
    \E k \in 0..(PoolSize - 1) :
        {l1, l2} = {IndexedLabel("Signature", k), IndexedLabel("Static Account Key", k)}

\* C15 amended: two labelled sections with the same label have the same
\* colour, and two with different labels have different colours unless they
\* are Signature (k) and Static Account Key (k) of one position k, which
\* share key-slot colour k.
C15_LabelColorUpToKeySlot ==
    \A i, j \in Labelled(sections) :
        /\ sections[i].label = sections[j].label => sections[i].color = sections[j].color
        /\ (sections[i].color = sections[j].color /\ sections[i].label # sections[j].label)
               => SameKeySlot(sections[i].label, sections[j].label)

C15_Witness ==
    /\ pc = "done"
    /\ tx.versioned
    /\ Len(tx.instructions) = 2
    /\ Len(tx.address_table_lookups) = 1
    /\ \E i, j \in Labelled(sections) :
          /\ sections[i].label = Some("Signature (0)")
          /\ sections[j].label = Some("Static Account Key (0)")
          /\ sections[i].color = sections[j].color

\* The section that holds the byte with running index k (0-based).
ContainingSection(secs, k) ==
    CHOOSE i \in 1..Len(secs) :
        StartOf(secs, i) <= k /\ k < StartOf(secs, i) + Len(secs[i].bytes)

\* C16: grid cell placement.  With at least one byte per row, the grid places
\* every byte of the flattened stream, the byte with running index k in row
\* k div bytes_per_row and column k mod bytes_per_row, with the colour of the
\* section that contains it, wherever the section boundaries fall.
C16_GridCellPlacement ==
    (grid.widget # "none" /\ area_width \div 3 >= 1) =>
        LET bytes_per_row == area_width \div 3
            flat == Flatten(SectionBytes(sections))
        IN  /\ Len(grid.cells) = Len(flat)
            /\ \A k \in 0..(Len(flat) - 1) :
                  /\ grid.cells[k + 1].row = k \div bytes_per_row
                  /\ grid.cells[k + 1].col = k % bytes_per_row
                  /\ grid.cells[k + 1].byte = flat[k + 1]
                  /\ grid.cells[k + 1].color
                         = sections[ContainingSection(sections, k)].color

\* A section of several bytes spans a row wrap, next to other sections.
C16_Witness ==
    /\ grid.widget # "none"
    /\ grid.fault = "none"
    /\ Len(sections) >= 2
    /\ \E k \in 0..(Len(grid.cells) - 2) :
          /\ ContainingSection(sections, k) = ContainingSection(sections, k + 1)
          /\ grid.cells[k + 1].row + 1 = grid.cells[k + 2].row
          /\ grid.cells[k + 2].col = 0
          /\ grid.cells[k + 1].col > 0

\* The structural roles in the order TransactionColorSet::new declares them.
RoleColors(cs) ==
    <<cs.signature_count_color, cs.version_byte_color, cs.num_required_signatures_color,
      cs.num_readonly_signed_accounts_color, cs.num_readonly_unsigned_accounts_color,
      cs.recent_blockhash_color, cs.num_instructions_color,
      cs.instruction_num_accounts_color, cs.instruction_accounts_color,
      cs.instruction_data_length_color, cs.instruction_data_color,
      cs.atl_count_color, cs.atl_address_color, cs.atl_write_count_color,
      cs.atl_read_count_color, cs.atl_write_set_color, cs.atl_read_set_color>>

\* The labels whose sections are painted with a structural role, by role.
RoleLabels ==
    <<"Signature Count", "Version Byte", "num_required_signatures",
      "num_readonly_signed_accounts", "num_readonly_unsigned_accounts",
      "Recent Blockhash", "Number of Instructions", "Instruction Number of Accounts",
      "Instruction Accounts", "Instruction Data Length", "Instruction Data",
      "Message Address Table Lookups Count", "Message Address Table Lookup Address",
      "Message Address Table Lookup Write Count",
      "Message Address Table Lookup Read Count",
      "Message Address Table Lookup Write Set",
      "Message Address Table Lookup Read Set">>

\* C17: role binding.  Once built, the colour set gives role r (0..16, in the
\* declared order) colour r of the generated sequence, the key-slot pool is
\* the remaining colours in order (pool index p is sequence colour 17 + p),
\* and every emitted section of a role carries that role's colour.
C17_RoleBinding ==
    COLOR_SET # Uninit =>
        /\ Len(RoleColors(COLOR_SET)) = NUM_NON_ACCOUNT_COLORS
        /\ \A r \in 0..(NUM_NON_ACCOUNT_COLORS - 1) :
              RoleColors(COLOR_SET)[r + 1] = COLORS[r + 1]
        /\ Len(COLOR_SET.static_account_key_colors) = Len(COLORS) - NUM_NON_ACCOUNT_COLORS
        /\ \A p \in 0..(Len(COLOR_SET.static_account_key_colors) - 1) :
              COLOR_SET.static_account_key_colors[p + 1] = COLORS[17 + p + 1]
        /\ \A i \in 1..Len(sections) : \A r \in 1..Len(RoleLabels) :
              sections[i].label = Some(RoleLabels[r]) => sections[i].color = COLORS[r]

\* Every one of the 17 roles has painted a section.
C17_Witness ==
    /\ pc = "done"
    /\ COLOR_SET # Uninit
    /\ \A r \in 1..Len(RoleLabels) :
          \E i \in 1..Len(sections) :
              sections[i].label = Some(RoleLabels[r]) /\ sections[i].color = COLORS[r]

SumTaken(t) == SumLens([k \in 1..Len(t) |-> Fill(t[k].len, 0)])

\* C18: cursor invariant.  After every step of an extraction the cursor is
\* the sum of the lengths of the slices taken so far, each slice starts
\* where the previous one ended (the first at 0), each emitted section holds
\* as many bytes as its slice, and within one extraction the cursor never
\* decreases and moves only by the lengths of the slices newly taken.
C18_CursorInvariant ==
    [][ /\ offset' = SumTaken(taken')
        /\ \A k \in 1..Len(taken') :
              taken'[k].start = SumTaken(SubSeq(taken', 1, k - 1))
        /\ \A k \in 1..Len(sections') :
              Extracting' => Len(sections'[k].bytes) = taken'[k].len
        /\ (Extracting /\ pc # "done") =>
              /\ offset' >= offset
              /\ IsPrefix(taken, taken')
              /\ offset' - offset
                     = SumTaken(SubSeq(taken', Len(taken) + 1, Len(taken'))) ]_vars

\* A returned call that went through every add_* step, lookups included.
C18_Witness ==
    /\ pc = "done"
    /\ tx.versioned
    /\ Len(tx.address_table_lookups) >= 1
    /\ Len(taken) = Len(sections)
    /\ Len(taken) > 15
    /\ offset = Len(bytes)
    /\ offset = SumTaken(taken)

\* C19: narrow area.  For a list of at least one byte, an inner width of 0, 1
\* or 2 columns makes the grid renderer fail with a division by zero, with
\* nothing rendered, and a render that completes had a width of at least 3.
C19_NarrowArea ==
    (grid.widget # "none" /\ TotalBytes(sections) > 0) =>
        /\ area_width < 3 => (grid.fault = "divide_by_zero" /\ grid.cells = <<>>)
        /\ grid.fault = "divide_by_zero" => area_width < 3
        /\ grid.fault = "none" => area_width >= 3

C19_Witness ==
    /\ grid.widget = "TransactionByteBlock"
    /\ TotalBytes(sections) > 0
    /\ area_width = 2
    /\ grid.fault = "divide_by_zero"

====
